---------------------------- MODULE Spec2Model ----------------------------
(***************************************************************************)
(* GoLangfuse: the asynchronous batching pipeline (src/langfuse.go, the    *)
(* batching revision that starts at line 86) and the HTTP client with its  *)
(* retry loop (src/unnamed/part_006, from line 42; errors in               *)
(* src/errors.go).                                                         *)
(*                                                                         *)
(* A process is modelled between the points where it blocks: a worker      *)
(* blocks in the select of processBatches, in the HTTP round trip of       *)
(* sendEvent and in the backoff select of sendEventWithRetry; Stop blocks  *)
(* in its final select.  Everything between two such points is one step.   *)
(***************************************************************************)
EXTENDS Integers, Sequences, FiniteSets, TLC

(***************************************************************************)
(* Bounds of the model.                                                    *)
(***************************************************************************)
\* number of AddEvent calls made to a pipeline of one worker
MaxEvents == 3
\* number of AddEvent calls made to the pool of two workers
PoolEvents == 1
\* config.BatchSize (Validate: > 0)
BatchSize == 2
\* config.MaxRetries
MaxRetries == 1
\* capacity of the window of response times: maxResponseTimeHistory (100)
\* scaled down
maxResponseTimes == 2
\* number of counted collector operations in a run
MaxOps == 3
\* config.BatchTimeout, in steps of the clock
BatchTimeout == 2
\* config.RetryDelay, in units of time
RetryDelay == 1
\* capacity of eventChannel: maxParallelItem (512) scaled down so that the
\* channel can fill up
QueueCap == 2

\* the goroutines startBatchProcessors can start; procs (below) are those
\* it did start: config.NumberOfEventProcessor = Cardinality(procs)
Workers == {"w1", "w2"}
\* a caller of Client.Send / Client.SendBatch outside the pipeline
Direct == "direct"
Callers == Workers \cup {Direct}

\* context.Background() is never done; a request context can be cancelled
Contexts == {"bg", "req"}
Cancellable == {"req"}

EventIDs == 1..MaxEvents

VARIABLES
    config,         \* the *config.Langfuse given to Validate / NewWithClient
    verdict,        \* what config.Validate() returned: "none" while it was
                    \* not called, "nil", or the error
    service,        \* "none": no service was constructed; "running":
                    \* NewWithClient returned one; "fatal": logger.Fatalf
                    \* ended the process during construction
    metrics,        \* MetricsCollector.metrics: the counters and gauges
    health,         \* MetricsCollector.healthStatus: the stored HealthStatus
    responseTimes,  \* MetricsCollector.responseTimes: the rolling window
    recorded,       \* history: the response times recorded since
                    \* construction or the last Reset, oldest first
    procs,          \* the workers startBatchProcessors started
    quota,          \* number of AddEvent calls the producers make
    sending,        \* where AddEvent is followed step by step: the context
                    \* of the AddEvent that has run ensureEventID and is at
                    \* (or blocked in) its channel send, or "none"
    ticker,         \* each worker's time.Ticker, where time is followed:
                    \* phase: the time since the ticker's last period ended,
                    \* ready: a tick waits in ticker.C, sinceFlush: the time
                    \* since the worker's last flushBatch (or its start),
                    \* counted up to BatchTimeout
    eventChannel,   \* buffered channel of eventChanItem: sequence of [id, ctx]
    chanClosed,     \* close(l.eventChannel) has run
    stopChannel,    \* "open" | "closed"
    nAdded,         \* number of AddEvent calls that enqueued
    panicked,       \* the process died of a send on a closed channel
    ctxDone,        \* the contexts that are done
    pc,             \* where each caller blocks
    batch,          \* processBatches: var batch []eventChanItem
    todo,           \* flushBatch: the context groups not yet sent
    exiting,        \* processBatches returns after the flush in progress
    call,           \* the Client call in progress of each caller
    ret,            \* what the direct caller's latest Client call returned
    stopPc,         \* Stop: "none" | "closedStop" | "waiting" | "nil" | "err"
    stopCtxDone,    \* the context given to Stop is done
    lateAdd,        \* history: an AddEvent enqueued after Stop was called
    event,          \* the event objects the callers hold, by event: the Go
                    \* type (variant), the ID field (id); history: the ID the
                    \* caller built the event with (given) and the pointer
                    \* AddEvent returned (ret)
    handed,         \* history: events passed to Client.SendBatch or Client.Send
    fb              \* history of the fallback loop of a worker's latest
                    \* sendBatch: the error SendBatch returned (cause), the
                    \* events of the batch (evs), those the API accepted in
                    \* the batch response (acc), and those whose Client.Send
                    \* returned nil (ok) or an error (failed); cleared when
                    \* the worker's next flush or next sendBatch begins

(***************************************************************************)
(* Configuration (src/config/langfuse.go).                                 *)
(***************************************************************************)
\* a configuration with every field set to a usable value and n workers;
\* URL: "" | "bad" (not a URL) | "url"; durations in units of time
RunConfig(n) ==
    [URL |-> "url", PublicKey |-> "pk", SecretKey |-> "sk",
     NumberOfEventProcessor |-> n, BatchSize |-> BatchSize,
     MaxRetries |-> MaxRetries, RetryDelay |-> RetryDelay,
     BatchTimeout |-> 1, Timeout |-> 1]
\* every combination of empty, malformed, negative, zero and usable fields
AllConfigs ==
    [URL : {"", "bad", "url"}, PublicKey : {"", "pk"}, SecretKey : {"", "sk"},
     NumberOfEventProcessor : {-1, 0, 1}, BatchSize : {-1, 0, 1},
     MaxRetries : {-1, 0, 1}, RetryDelay : {1},
     BatchTimeout : {-1, 0, 1}, Timeout : {0, 1}]

\* govalidator.ValidateStruct over the struct tags: URL valid:"url,required",
\* PublicKey and SecretKey valid:"required"; no other field has a tag
ValidateStruct(c) == c.URL = "url" /\ c.PublicKey # "" /\ c.SecretKey # ""

\* Validate: the error it returns, "nil" for none
Validate(c) ==
    IF ~ValidateStruct(c) THEN "configuration validation failed"
    ELSE IF c.NumberOfEventProcessor <= 0
    THEN "number of event processors must be greater than 0"
    ELSE IF c.BatchSize <= 0 THEN "batch size must be greater than 0"
    ELSE "nil"

(***************************************************************************)
(* The metrics collector (src/unnamed/part_012).                           *)
(***************************************************************************)
\* Metrics; times and durations are in minutes.  LastErrorAt is meaningful
\* when HasError (LastErrorAt != nil), LastEventProcessedAt when
\* EventsProcessed > 0.  The collector of the arguments has queued and sent
\* nothing in batches, and each of its requests took one minute;
\* MinResponseTime starts at time.Hour.
Metrics(ep, ef, size, cap, procsActive, total, failure, hasErr, at) ==
    [EventsProcessed |-> ep, EventsFailed |-> ef,
     QueueSize |-> size, QueueCapacity |-> cap, ActiveProcessors |-> procsActive,
     HTTPRequestsTotal |-> total, HTTPRequestsFailure |-> failure,
     HasError |-> hasErr, LastErrorAt |-> at,
     EventsQueued |-> 0, BatchesProcessed |-> 0, BatchesFailed |-> 0,
     HTTPRequestsSuccess |-> total - failure,
     TotalResponseTime |-> total,
     AverageResponseTime |-> IF total > 0 THEN 1 ELSE 0,
     MaxResponseTime |-> IF total > 0 THEN 1 ELSE 0,
     MinResponseTime |-> IF total > 0 THEN 1 ELSE 60,
     StartTime |-> 0, LastEventProcessedAt |-> 0, LastError |-> ""]
HealthStatus(status, queue, processor, api, at) ==
    [Status |-> status, QueueHealth |-> queue, ProcessorHealth |-> processor,
     APIHealth |-> api, LastHealthCheck |-> at]
\* NewMetricsCollector: zero counters, status "starting"
NewMetricsCollector ==
    /\ metrics = Metrics(0, 0, 0, 0, 0, 0, 0, FALSE, 0)
    /\ health = HealthStatus("starting", "", "", "", 0)
    /\ responseTimes = <<>>
    /\ recorded = <<>>

Min(a, b) == IF a <= b THEN a ELSE b

\* a status that a warning always sets to degraded
degradeAlways(status) == "degraded"

\* if health.Status == healthStatusHealthy { health.Status = healthStatusDegraded }
degrade(status) == IF status = "healthy" THEN "degraded" ELSE status

\* a queue classification with >= for >
QueueHealthInclusive(m) ==
    IF m.QueueCapacity = 0
    THEN IF m.QueueSize > 0 THEN "critical" ELSE "healthy"
    ELSE IF 10 * m.QueueSize >= 9 * m.QueueCapacity THEN "critical"
    ELSE IF 10 * m.QueueSize >= 7 * m.QueueCapacity THEN "warning"
    ELSE "healthy"

\* an API classification that takes no request for an error rate of 0
APIHealthNoUnknown(m) ==
    IF 10 * m.HTTPRequestsFailure > m.HTTPRequestsTotal THEN "critical"
    ELSE IF 20 * m.HTTPRequestsFailure > m.HTTPRequestsTotal THEN "warning"
    ELSE "healthy"

\* queueUtilization := float64(QueueSize) / float64(QueueCapacity) compared
\* with 0.9 and 0.7; a capacity of 0 gives +Inf for a positive size and NaN
\* for size 0, and NaN is greater than nothing
QueueHealthOf(m) ==
    IF m.QueueCapacity = 0
    THEN IF m.QueueSize > 0 THEN "critical" ELSE "healthy"
    ELSE IF 10 * m.QueueSize > 9 * m.QueueCapacity THEN "critical"
    ELSE IF 10 * m.QueueSize > 7 * m.QueueCapacity THEN "warning"
    ELSE "healthy"
ProcessorHealthOf(m) == IF m.ActiveProcessors = 0 THEN "critical" ELSE "healthy"
\* errorRate := float64(HTTPRequestsFailure) / float64(HTTPRequestsTotal)
\* compared with 0.1 and 0.05, when HTTPRequestsTotal > 0
APIHealthOf(m) ==
    IF m.HTTPRequestsTotal > 0
    THEN IF 10 * m.HTTPRequestsFailure > m.HTTPRequestsTotal THEN "critical"
         ELSE IF 20 * m.HTTPRequestsFailure > m.HTTPRequestsTotal THEN "warning"
         ELSE "healthy"
    ELSE "unknown"
\* LastErrorAt != nil && now.Sub(*LastErrorAt) < 5*time.Minute
RecentError(m, now) == m.HasError /\ now - m.LastErrorAt < 5

\* CheckHealth at time now: the HealthStatus it stores and returns; the
\* status starts healthy and the four checks follow one another
CheckHealth(m, now) ==
    LET q == QueueHealthOf(m)
        p == ProcessorHealthOf(m)
        a == APIHealthOf(m)
        s1 == IF q = "critical" THEN "unhealthy"
              ELSE IF q = "warning" THEN degrade("healthy") ELSE "healthy"
        s2 == IF p = "critical" THEN "unhealthy" ELSE s1
        s3 == IF a = "critical" THEN "unhealthy"
              ELSE IF a = "warning" THEN degrade(s2) ELSE s2
        s4 == IF RecentError(m, now) THEN degrade(s3) ELSE s3
    IN  HealthStatus(s4, q, p, a, now)

(***************************************************************************)
(* Events (src/types, getEventType of src/unnamed/part_006).               *)
(***************************************************************************)
\* *uuid.UUID values: nil, an ID the caller built, the k-th result of
\* uuid.New() (a random UUID, taken to differ from every other)
Nil == [by |-> "nil", n |-> 0]
CallerID(k) == [by |-> "caller", n |-> k]
NewUUID(k) == [by |-> "uuid.New", n |-> k]
\* the implementations of types.LangfuseEvent; "Other" is any further one
Variants == {"TraceEvent", "GenerationEvent", "SpanEvent", "ScoreEvent", "Other"}
\* an event object built with ID g, not yet passed to AddEvent
\* (valid: govalidator.ValidateStruct finds no error in the event)
NewEvent(v, g) == [variant |-> v, given |-> g, id |-> g, ret |-> Nil, valid |-> TRUE]
\* the caller's events: trace events without an ID / with an ID each
Traces == {[e \in EventIDs |-> NewEvent("TraceEvent", Nil)]}
TracesWithID == {[e \in EventIDs |-> NewEvent("TraceEvent", CallerID(e))]}
\* the first n events are of any of the variants vs, with or without an ID
AnyEvents(n, vs) ==
    {h \in [EventIDs -> {NewEvent(v, g) : v \in vs, g \in {Nil, CallerID(1)}}] :
        \A e \in EventIDs : e > n => h[e] = NewEvent("TraceEvent", Nil)}

\* getEventType: the type switch over the event's concrete type
getEventType(v) ==
    CASE v = "TraceEvent" -> "trace-create"
      [] v = "GenerationEvent" -> "generation-create"
      [] v = "SpanEvent" -> "span-create"
      [] v = "ScoreEvent" -> "score-create"
      [] OTHER -> "unknown"

\* what no step of the pipeline writes: the configuration, the workers
\* started, and the metrics collector, which the service does not hold
collectorVars == <<metrics, health, responseTimes, recorded>>
baseVars == <<config, verdict, service, collectorVars, procs, quota, sending>>
cfgVars == <<baseVars, ticker>>
chanVars == <<eventChannel, chanClosed, stopChannel, nAdded, panicked, lateAdd,
              event>>
stopVars == <<stopPc, stopCtxDone>>
workerVars == <<batch, todo, exiting>>
svcVars == <<cfgVars, chanVars, stopVars, workerVars>>
callVars == <<pc, call, ret, ctxDone>>
histVars == <<handed, fb>>
vars == <<svcVars, callVars, histVars>>

(***************************************************************************)
(* Errors (src/errors.go).                                                 *)
(***************************************************************************)
httpServerErrorStart == 500

Err(code, type, status) == [code |-> code, type |-> type, status |-> status]
NoErr == Err("nil", "NONE", 0)
ErrConnectionFailed == Err("CONNECTION_FAILED", "NETWORK", 0)
ErrNetworkTimeout == Err("NETWORK_TIMEOUT", "NETWORK", 0)
ErrRequestFailed == Err("REQUEST_FAILED", "NETWORK", 0)
ErrEventProcessing == Err("EVENT_PROCESSING", "PROCESSING", 0)
ErrBatchProcessing == Err("BATCH_PROCESSING", "PROCESSING", 0)
ErrAPIServerError == Err("SERVER_ERROR", "API", 0)
ErrUnknownEventType == Err("UNKNOWN_EVENT_TYPE", "VALIDATION", 0)
ErrEventValidation == Err("EVENT_VALIDATION", "VALIDATION", 0)
ErrMissingURL == Err("MISSING_URL", "CONFIG", 0)
\* ctx.Err(): context.Canceled / context.DeadlineExceeded, not a *LangfuseError
CtxErr == Err("context", "CONTEXT", 0)

\* IsRetryable without the rate-limit case
IsRetryableNo429(e) ==
    CASE e.type = "NETWORK" -> TRUE
      [] e.type = "API" -> e.status >= httpServerErrorStart
      [] OTHER -> FALSE

\* func (e *Error) IsRetryable() bool
IsRetryable(e) ==
    CASE e.type = "NETWORK" -> TRUE
      [] e.type = "API" -> e.status >= httpServerErrorStart \/ e.status = 429
      [] OTHER -> FALSE

\* func NewHTTPError(statusCode int, message string) *Error
NewHTTPError(statusCode) ==
    CASE statusCode = 401 -> Err("UNAUTHORIZED", "API", statusCode)
      [] statusCode = 403 -> Err("FORBIDDEN", "API", statusCode)
      [] statusCode = 404 -> Err("NOT_FOUND", "API", statusCode)
      [] statusCode = 429 -> Err("RATE_LIMIT", "API", statusCode)
      [] statusCode \in {500, 502, 503} -> Err("SERVER_ERROR", "API", statusCode)
      [] OTHER ->
           IF statusCode >= 400 /\ statusCode < 500
           THEN Err("CLIENT_ERROR", "API", statusCode)
           ELSE IF statusCode >= httpServerErrorStart
                THEN Err("SERVER_ERROR", "API", statusCode)
                ELSE Err("HTTP_ERROR", "NETWORK", statusCode)

(***************************************************************************)
(* What one HTTP round trip of sendEvent can come to.                      *)
(*   "ok"     2xx and a response body that parses (it may list errors)     *)
(*   "http"   a status >= 400                                              *)
(*   "conn"   c.client.Do failed                                           *)
(*   "read"   reading the response body failed                             *)
(*   "parse"  the response body is not the expected JSON                   *)
(***************************************************************************)
Outcome(k, status) == [k |-> k, status |-> status]
OkOutcome == Outcome("ok", 200)
\* one outcome of each class the retry loop tells apart
ClassOutcomes == {OkOutcome, Outcome("http", 400), Outcome("http", 503)}
AllOutcomes == {OkOutcome, Outcome("conn", 0), Outcome("read", 0),
                Outcome("parse", 0)}
               \cup {Outcome("http", s) : s \in {400, 401, 403, 404, 422, 429,
                                                 500, 502, 503, 504}}

\* the error sendEvent returns for an outcome (NoErr: it returns the response)
sendEvent(o) ==
    CASE o.k = "ok" -> NoErr
      [] o.k = "http" -> NewHTTPError(o.status)
      [] o.k = "conn" -> ErrConnectionFailed
      [] o.k = "read" -> ErrNetworkTimeout
      [] OTHER -> ErrEventProcessing

(***************************************************************************)
(* Local helpers.                                                          *)
(***************************************************************************)
Range(q) == {q[k] : k \in 1..Len(q)}
IdsOf(q) == {q[k].id : k \in 1..Len(q)}
\* the keys of contextGroups
CtxsOf(b) == {b[k].ctx : k \in 1..Len(b)}
\* a grouping that puts the newest event of a context first
RECURSIVE GroupReversed(_, _)
GroupReversed(b, c) ==
    IF b = <<>> THEN <<>>
    ELSE IF Head(b).ctx = c THEN GroupReversed(Tail(b), c) \o <<Head(b).id>>
         ELSE GroupReversed(Tail(b), c)

\* a grouping that puts every pending event into every group
GroupAll(b, c) == [k \in 1..Len(b) |-> b[k].id]

\* contextGroups[c]: the events of batch b submitted with context c, in order
RECURSIVE Group(_, _)
Group(b, c) ==
    IF b = <<>> THEN <<>>
    ELSE IF Head(b).ctx = c THEN <<Head(b).id>> \o Group(Tail(b), c)
         ELSE Group(Tail(b), c)

\* the Client call a caller is in: kind "batch" (SendBatch) or "single" (Send);
\* events: the batch, idx: the event of the fallback loop being sent
\* (0: the whole batch), i: the retry loop's counter, n: sendEvent calls made,
\* lastErr: the retry loop's lastErr, waits: the delays of the backoff
\* selects entered so far
NewCall(kind, c, evs, idx) ==
    [kind |-> kind, ctx |-> c, events |-> evs, idx |-> idx,
     i |-> 0, n |-> 1, lastErr |-> NoErr, waits |-> <<>>]
NoCall == [kind |-> "none", ctx |-> "bg", events |-> <<>>, idx |-> 0,
           i |-> 0, n |-> 0, lastErr |-> NoErr, waits |-> <<>>]
\* the events in the request of a call
Carried(c) == IF c.kind = "single" THEN {c.events[c.idx]} ELSE Range(c.events)

NoFb == [cause |-> "nil", evs |-> {}, acc |-> {}, ok |-> {}, failed |-> {}]
\* what a Client call returned: the error's code (res), the error it wraps
\* (cause), the sendEvent calls it made (n) and where it returned from (at)
NoResult == [res |-> "none", n |-> 0, cause |-> NoErr, at |-> "none"]

\* the history after a step of caller p in which a Client call with the
\* events begun began; f: the fallback history of p after the step
History(p, begun, f) ==
    /\ handed' = handed \cup begun
    /\ fb' = IF p \in Workers THEN [fb EXCEPT ![p] = f] ELSE fb

\* a caller's own state after a step
SetLocal(p, newpc, b, td, ex, c) ==
    /\ pc' = [pc EXCEPT ![p] = newpc]
    /\ call' = [call EXCEPT ![p] = c]
    /\ IF p \in Workers
       THEN /\ batch' = [batch EXCEPT ![p] = b]
            /\ todo' = [todo EXCEPT ![p] = td]
            /\ exiting' = [exiting EXCEPT ![p] = ex]
       ELSE UNCHANGED <<batch, todo, exiting>>

(***************************************************************************)
(* processBatches / flushBatch / sendBatch (src/langfuse.go).              *)
(***************************************************************************)
\* a worker that returns from processBatches when a batch send failed
afterFlushQuitOnError(ex, f) == IF ex \/ f.cause # "nil" THEN "done" ELSE "select"

\* where a worker goes when sendBatch returned for the last group, f being
\* what that sendBatch met: sendBatch returns nothing, so flushBatch returns
\* to the select loop, or to the return of the stop cases (ex)
afterFlush(ex, f) == IF ex THEN "done" ELSE "select"

\* flushBatch, the loop over contextGroups: td are the groups still to send
\* (a Go map is ranged over in no fixed order).  After the last group:
\* batch = batch[:0], and the worker returns to its select, or returns from
\* processBatches (wg.Done) when ex.  f: the history of the sendBatch that
\* just returned.
sendGroups(w, b, td, ex, f) ==
    IF td = {}
    THEN /\ SetLocal(w, afterFlush(ex, f), <<>>, {}, ex, NoCall)
         /\ History(w, {}, f)
    ELSE \E c \in td :
            /\ SetLocal(w, "transport", b, td \ {c}, ex,
                        NewCall("batch", c, Group(b, c), 0))
            /\ History(w, Range(Group(b, c)), NoFb)

\* a worker that flushes on the timer and on stop only
sizeTriggerNever(b) == FALSE

\* the size trigger with > for >=
sizeTriggerLate(b) == Len(b) > BatchSize

\* if len(batch) >= l.config.BatchSize { flushBatch() }
sizeTrigger(b) == Len(b) >= BatchSize

\* flushBatch := func() { if len(batch) == 0 { return } ... }
flushBatch(w, b, ex) ==
    IF Len(b) = 0
    THEN /\ SetLocal(w, IF ex THEN "done" ELSE "select", b, {}, ex, NoCall)
         /\ History(w, {}, NoFb)
    ELSE sendGroups(w, b, CtxsOf(b), ex, NoFb)

\* a fallback that sends only the events the batch response rejected
fallbackRejected(events, acc) == SelectSeq(events, LAMBDA x : x \notin acc)

\* the events the fallback loop of sendBatch sends one by one after
\* SendBatch returned an error: for _, event := range events
fallbackEvents(events, acc) == events

\* a fallback loop that ends at the first Send that returns an error
fallbackUntilError(c, e) == c.idx < Len(c.events) /\ e = NoErr

\* the fallback loop of sendBatch goes on to the event after events[idx]
\* once its Send returned e: for _, event := range events, whatever e is
fallbackNext(c, e) == c.idx < Len(c.events)

\* a sendBatch that sends every event again whatever SendBatch returned
fallsBackAlways(e) == TRUE

\* err := l.client.SendBatch(ctx, events); if err != nil { ... }
fallsBack(e) == e # NoErr

\* sendBatch after l.client.SendBatch or l.client.Send returned e to worker w;
\* acc: the events the API accepted in a batch response that listed errors.
\* (A range over no event sends nothing.)
sendBatch(w, e, acc) ==
    LET c == call[w]
        ev == c.events[c.idx]
        f == IF e = NoErr THEN [fb[w] EXCEPT !.ok = @ \cup {ev}]
                          ELSE [fb[w] EXCEPT !.failed = @ \cup {ev}]
        each == fallbackEvents(c.events, acc)
    IN  IF c.kind = "batch"
        THEN IF ~fallsBack(e) \/ each = <<>>
             THEN sendGroups(w, batch[w], todo[w], exiting[w], NoFb)
             ELSE /\ SetLocal(w, "transport", batch[w], todo[w], exiting[w],
                              NewCall("single", c.ctx, each, 1))
                  /\ History(w, {each[1]},
                             [NoFb EXCEPT !.cause = e.code,
                                          !.evs = Range(c.events), !.acc = acc])
        ELSE IF fallbackNext(c, e)
             THEN /\ SetLocal(w, "transport", batch[w], todo[w], exiting[w],
                              NewCall("single", c.ctx, c.events, c.idx + 1))
                  /\ History(w, {c.events[c.idx + 1]}, f)
             ELSE sendGroups(w, batch[w], todo[w], exiting[w], f)

\* strings.TrimSpace over the URLs of the model
TrimSpace(u) == IF u \in {"", " ", "  "} THEN "" ELSE u

\* the events a call was given, in order
Given(c) == IF c.kind = "single" THEN <<c.events[c.idx]>> ELSE c.events

\* the loop of SendBatch over its events (Send: its one event): the first
\* event of "unknown" type or that ValidateStruct refuses ends the call
RECURSIVE checkEvents(_)
checkEvents(evs) ==
    IF evs = <<>> THEN NoErr
    ELSE IF getEventType(event[Head(evs)].variant) = "unknown"
         THEN ErrUnknownEventType
         ELSE IF ~event[Head(evs)].valid THEN ErrEventValidation
              ELSE checkEvents(Tail(evs))

\* checks that look at the event types only
precheckTypeOnly(c) ==
    IF \E e \in Carried(c) : getEventType(event[e].variant) = "unknown"
    THEN ErrUnknownEventType ELSE NoErr

\* what Send / SendBatch return before any request is built: ErrMissingURL
\* for a blank URL, else the error of the first event refused, else nothing
precheck(c) ==
    IF TrimSpace(config.URL) = "" THEN ErrMissingURL ELSE checkEvents(Given(c))

\* Send / SendBatch find nothing wrong and go on to sendEventWithRetry
Sendable(c) == precheck(c) = NoErr

\* a Client call of caller p returns e (cause: the lastErr it wraps)
ClientReturn(p, e, cause, acc) ==
    IF p \in Workers
    THEN sendBatch(p, e, acc) /\ UNCHANGED ret
    ELSE /\ SetLocal(p, "idle", <<>>, {}, FALSE, NoCall)
         /\ ret' = [res |-> e.code, n |-> call[p].n, cause |-> cause,
                     at |-> pc[p]]
         /\ History(p, {}, NoFb)

(***************************************************************************)
(* The retry loop of sendEventWithRetry (src/unnamed/part_006).            *)
(***************************************************************************)
\* a delay of RetryDelay * 2^i
delayDoubled(i) == (2 ^ i) * RetryDelay

\* delay := time.Duration(math.Pow(2, float64(i-1))) * c.config.RetryDelay,
\* for i > 0
delay(i) == (2 ^ (i - 1)) * RetryDelay

\* a loop that goes round once more than MaxRetries allows
retryAgainOnceMore(err, i) == IsRetryable(err) /\ i <= MaxRetries

\* the loop with i < MaxRetries for i <= MaxRetries
retryAgainShort(err, i) == IsRetryable(err) /\ i + 1 < MaxRetries

\* the loop goes on to a further attempt after attempt i failed with err:
\* err is retryable (no break) and the loop condition i+1 <= MaxRetries holds
retryAgain(err, i) == IsRetryable(err) /\ i < MaxRetries

\* for i := 0; i <= c.config.MaxRetries; i++: the body is entered for i
loopEnters(i) == i <= config.MaxRetries

\* the round trip of caller p ends with outcome o; bad: the events the
\* response lists in resp.Errors
TransportRespond(p, o, bad) ==
    /\ ~panicked
    /\ pc[p] = "transport"
    /\ Sendable(call[p])
    /\ loopEnters(call[p].i)
    /\ bad \subseteq Carried(call[p])
    /\ o.k # "ok" => bad = {}
    /\ LET c == call[p]
           err == sendEvent(o)
       IN  IF err = NoErr
           THEN \* return resp, nil; then Send / SendBatch look at resp.Errors
                IF bad = {}
                THEN ClientReturn(p, NoErr, NoErr, {})
                ELSE IF c.kind = "batch"
                     THEN ClientReturn(p, ErrBatchProcessing, NoErr,
                                       Carried(c) \ bad)
                     ELSE ClientReturn(p, ErrAPIServerError, NoErr, {})
           ELSE IF retryAgain(err, c.i)
           THEN \* i++, and i > 0: the select on ctx.Done() and time.After
                /\ pc' = [pc EXCEPT ![p] = "backoff"]
                /\ call' = [call EXCEPT ![p] =
                               [c EXCEPT !.i = c.i + 1, !.lastErr = err,
                                         !.waits = Append(@, delay(c.i + 1))]]
                /\ UNCHANGED <<workerVars, ret, histVars>>
           ELSE \* break, or the loop ends: ErrRequestFailed.WithCause(lastErr)
                ClientReturn(p, ErrRequestFailed, err, {})
    /\ UNCHANGED <<cfgVars, chanVars, stopVars, ctxDone>>

\* Send / SendBatch, before any request is built: a blank URL or an event
\* that is refused makes the call return the error of the check
Reject(p) ==
    /\ ~panicked
    /\ pc[p] = "transport"
    /\ call[p].n = 1
    /\ ~Sendable(call[p])
    /\ IF p \in Workers
       THEN sendBatch(p, precheck(call[p]), {}) /\ UNCHANGED ret
       ELSE /\ SetLocal(p, "idle", <<>>, {}, FALSE, NoCall)
            /\ ret' = [res |-> precheck(call[p]).code, n |-> 0,
                        cause |-> NoErr, at |-> pc[p]]
            /\ History(p, {}, NoFb)
    /\ UNCHANGED <<cfgVars, chanVars, stopVars, ctxDone>>

\* sendEventWithRetry with a negative MaxRetries: the loop body is never
\* entered, no sendEvent is called, and the call returns
\* ErrRequestFailed.WithCause(lastErr) with lastErr still nil
NoAttempt(p) ==
    /\ ~panicked
    /\ pc[p] = "transport"
    /\ call[p].i = 0
    /\ Sendable(call[p])
    /\ ~loopEnters(0)
    /\ IF p \in Workers
       THEN sendBatch(p, ErrRequestFailed, {}) /\ UNCHANGED ret
       ELSE /\ SetLocal(p, "idle", <<>>, {}, FALSE, NoCall)
            /\ ret' = [res |-> ErrRequestFailed.code, n |-> 0,
                        cause |-> NoErr, at |-> pc[p]]
            /\ History(p, {}, NoFb)
    /\ UNCHANGED <<cfgVars, chanVars, stopVars, ctxDone>>

\* ... an event of "unknown" type makes it return ErrUnknownEventType
RejectUnknown(p) == precheck(call[p]) = ErrUnknownEventType /\ Reject(p)

\* case <-time.After(delay): the next sendEvent
BackoffElapsed(p) ==
    /\ ~panicked
    /\ pc[p] = "backoff"
    /\ pc' = [pc EXCEPT ![p] = "transport"]
    /\ call' = [call EXCEPT ![p].n = @ + 1]
    /\ UNCHANGED <<svcVars, ret, ctxDone, histVars>>

\* case <-ctx.Done(): return nil, ctx.Err().  Either the select was woken by
\* the cancellation ("woken"), or the context was done when the select began.
BackoffCancelled(p) ==
    /\ ~panicked
    /\ \/ pc[p] = "woken"
       \/ pc[p] = "backoff" /\ call[p].ctx \in ctxDone
    /\ ClientReturn(p, CtxErr, call[p].lastErr, {})
    /\ UNCHANGED <<cfgVars, chanVars, stopVars, ctxDone>>

\* a wait that the cancellation does not interrupt
wakeNever(p, c) == pc[p]

\* what the cancellation of context c does to a caller: a select blocked on
\* c.Done() and on a timer that has not fired is woken by c.Done()
wake(p, c) ==
    IF pc[p] = "backoff" /\ call[p].ctx = c THEN "woken" ELSE pc[p]

\* the producer's context is cancelled, or its deadline passes
Cancel(c) ==
    /\ ~panicked
    /\ c \in Cancellable \ ctxDone
    /\ ctxDone' = ctxDone \cup {c}
    /\ pc' = [p \in Callers |-> wake(p, c)]
    /\ UNCHANGED <<svcVars, call, ret, histVars>>

\* a caller outside the pipeline calls Client.Send (kind "single") or
\* Client.SendBatch (kind "batch") with a non-empty list of valid events
DirectCall(kind, evs, c) ==
    /\ ~panicked
    /\ pc[Direct] = "idle"
    /\ kind = "single" => Len(evs) = 1
    /\ pc' = [pc EXCEPT ![Direct] = "transport"]
    /\ call' = [call EXCEPT ![Direct] =
                   NewCall(kind, c, evs, IF kind = "single" THEN 1 ELSE 0)]
    /\ UNCHANGED <<svcVars, ret, ctxDone, histVars>>

(***************************************************************************)
(* The pipeline (src/langfuse.go).                                         *)
(***************************************************************************)
\* a channel without a capacity
hasSlotUnbounded(q) == TRUE

\* a hand-over that also waits until no worker is inside a Client call
hasSlotWhenIdle(q) == Len(q) < QueueCap /\ \A w \in procs : pc[w] = "select"

\* make(chan eventChanItem, maxParallelItem): a send proceeds while the
\* buffer holds fewer than its capacity
hasSlot(q) == Len(q) < QueueCap

\* an ensureEventID that always assigns a new ID
ensureEventIDAlways(id, new) == new

\* ensureEventID: the ID the event has after the call; new: uuid.New()
ensureEventID(id, new) == IF id # Nil THEN id ELSE new

\* AddEvent of the caller's next event: ensureEventID(event);
\* l.eventChannel <- eventChanItem{ctx, event}; return event.GetID().
\* The send blocks while the channel is full and panics when the channel is
\* closed.
AddEvent(c) ==
    /\ ~panicked
    /\ service = "running"
    /\ nAdded < quota
    /\ LET e == nAdded + 1
           withID == [event EXCEPT ![e].id = ensureEventID(@, NewUUID(e))]
       IN  IF chanClosed
           THEN /\ panicked' = TRUE
                /\ event' = withID
                /\ UNCHANGED <<eventChannel, nAdded, lateAdd>>
           ELSE /\ hasSlot(eventChannel)
                /\ eventChannel' = Append(eventChannel, [id |-> e, ctx |-> c])
                /\ nAdded' = e
                /\ lateAdd' = (lateAdd \/ stopPc # "none")
                /\ event' = [withID EXCEPT ![e].ret = withID[e].id]
                /\ UNCHANGED panicked
    /\ UNCHANGED <<cfgVars, chanClosed, stopChannel, stopVars, workerVars,
                   callVars, histVars>>

\* ticker := time.NewTicker(l.config.BatchTimeout)
NewTicker == [phase |-> 0, ready |-> FALSE, sinceFlush |-> 0]

\* what flushBatch does to the ticker of its worker: the closure has no
\* ticker.Reset and the ticker keeps its period; t: the ticker as the case
\* of the select left it
afterFlushTicker(t) == [t EXCEPT !.sinceFlush = 0]

\* AddEvent step by step, first step: ensureEventID(event); the caller is
\* then at l.eventChannel <- eventChanItem{ctx, event}
beginAddEvent(c) ==
    /\ ~panicked
    /\ service = "running"
    /\ nAdded < quota
    /\ sending = "none"
    /\ sending' = c
    /\ event' = [event EXCEPT ![nAdded + 1].id = ensureEventID(@, NewUUID(nAdded + 1))]
    /\ UNCHANGED <<config, verdict, service, collectorVars, procs, quota, ticker,
                   eventChannel, chanClosed, stopChannel, nAdded, panicked,
                   lateAdd, stopVars, workerVars, callVars, histVars>>

\* AddEvent step by step, second step: the channel send and the return.  A
\* send on a closed channel panics, also when the sender was blocked on the
\* full channel at the time of the close; a send on a full channel waits.
channelSend ==
    /\ ~panicked
    /\ sending # "none"
    /\ LET e == nAdded + 1
       IN  IF chanClosed
           THEN /\ panicked' = TRUE
                /\ UNCHANGED <<eventChannel, nAdded, lateAdd, event, sending>>
           ELSE /\ hasSlot(eventChannel)
                /\ eventChannel' = Append(eventChannel, [id |-> e, ctx |-> sending])
                /\ nAdded' = e
                /\ lateAdd' = (lateAdd \/ stopPc # "none")
                /\ event' = [event EXCEPT ![e].ret = event[e].id]
                /\ sending' = "none"
                /\ UNCHANGED panicked
    /\ UNCHANGED <<config, verdict, service, collectorVars, procs, quota, ticker,
                   chanClosed, stopChannel, stopVars, workerVars, callVars,
                   histVars>>

\* case item, ok := <-l.eventChannel, ok: append, flush at BatchSize
receiveItem(w) ==
    /\ ~panicked
    /\ pc[w] = "select"
    /\ Len(eventChannel) > 0
    /\ eventChannel' = Tail(eventChannel)
    /\ LET b == Append(batch[w], Head(eventChannel))
       IN  IF sizeTrigger(b)
           THEN flushBatch(w, b, FALSE)
           ELSE /\ SetLocal(w, "select", b, {}, FALSE, NoCall)
                /\ UNCHANGED histVars
    /\ UNCHANGED <<baseVars, chanClosed, stopChannel, nAdded, panicked, lateAdd, event,
                   stopVars, ret, ctxDone>>

\* the receive case where time is not followed
receive(w) == receiveItem(w) /\ UNCHANGED ticker

\* the receive case where time is followed
timedReceive(w) ==
    /\ receiveItem(w)
    /\ ticker' = IF sizeTrigger(Append(batch[w], Head(eventChannel)))
                 THEN [ticker EXCEPT ![w] = afterFlushTicker(@)]
                 ELSE ticker

\* case item, ok := <-l.eventChannel, !ok: the channel is closed and empty
receiveClosed(w) ==
    /\ ~panicked
    /\ pc[w] = "select"
    /\ chanClosed /\ eventChannel = <<>>
    /\ flushBatch(w, batch[w], TRUE)
    /\ UNCHANGED <<cfgVars, chanVars, stopVars, ret, ctxDone>>

\* a worker whose select has no ticker case
tickIdle(w) ==
    /\ ~panicked
    /\ pc[w] = "select"
    /\ UNCHANGED vars

\* case <-ticker.C
tickFlush(w) ==
    /\ ~panicked
    /\ pc[w] = "select"
    /\ flushBatch(w, batch[w], FALSE)
    /\ UNCHANGED <<baseVars, chanVars, stopVars, ret, ctxDone>>

\* the ticker case where time is not followed: a tick may come at any moment
tick(w) == tickFlush(w) /\ UNCHANGED ticker

\* the ticker case where time is followed: a tick waits in ticker.C
timedTick(w) ==
    /\ ticker[w].ready
    /\ tickFlush(w)
    /\ ticker' = [ticker EXCEPT ![w] = afterFlushTicker([@ EXCEPT !.ready = FALSE])]

\* one step of the clock: at the end of each period of BatchTimeout the
\* ticker puts a tick into ticker.C, which holds one tick (a tick that finds
\* one waiting is dropped).  A worker whose select has a ready case takes it
\* before the clock moves on.
Elapse ==
    /\ ~panicked
    /\ \A w \in procs :
          pc[w] = "select" => (~ticker[w].ready /\ eventChannel = <<>>)
    /\ ticker' =
          [w \in Workers |->
              IF w \in procs
              THEN [phase |-> (ticker[w].phase + 1) % BatchTimeout,
                    ready |-> ticker[w].ready \/ ticker[w].phase + 1 = BatchTimeout,
                    sinceFlush |-> Min(ticker[w].sinceFlush + 1, BatchTimeout)]
              ELSE ticker[w]]
    /\ UNCHANGED <<baseVars, chanVars, stopVars, workerVars, callVars, histVars>>

\* a stop case that returns without the final flush
stopSignalNoFlush(w) ==
    /\ ~panicked
    /\ pc[w] = "select"
    /\ stopChannel = "closed"
    /\ SetLocal(w, "done", batch[w], {}, TRUE, NoCall)
    /\ UNCHANGED <<cfgVars, chanVars, stopVars, ret, ctxDone, histVars>>

\* case <-l.stopChannel
stopSignal(w) ==
    /\ ~panicked
    /\ pc[w] = "select"
    /\ stopChannel = "closed"
    /\ flushBatch(w, batch[w], TRUE)
    /\ UNCHANGED <<cfgVars, chanVars, stopVars, ret, ctxDone>>

\* Stop: close(l.stopChannel)
StopSignalWorkers ==
    /\ ~panicked
    /\ stopPc = "none"
    /\ stopChannel' = "closed"
    /\ stopPc' = "closedStop"
    /\ UNCHANGED <<cfgVars, eventChannel, chanClosed, nAdded, panicked, lateAdd, event,
                   stopCtxDone, workerVars, callVars, histVars>>

\* Stop: close(l.eventChannel), then the select on done and ctx.Done()
StopCloseQueue ==
    /\ ~panicked
    /\ stopPc = "closedStop"
    /\ chanClosed' = TRUE
    /\ stopPc' = "waiting"
    /\ UNCHANGED <<cfgVars, eventChannel, stopChannel, nAdded, panicked, lateAdd, event,
                   stopCtxDone, workerVars, callVars, histVars>>

\* a further call of Stop, while the first is under way or after it
\* returned: its close(l.stopChannel) finds the channel closed and panics
StopAgain ==
    /\ ~panicked
    /\ stopChannel = "closed"
    /\ panicked' = TRUE
    /\ UNCHANGED <<cfgVars, eventChannel, chanClosed, stopChannel, nAdded, lateAdd,
                   event, stopVars, workerVars, callVars, histVars>>

\* a wait that ends with the first worker
wgAny == \E w \in procs : pc[w] = "done"

\* l.wg.Wait() returns: every started processBatches has run its wg.Done()
wgDone == \A w \in procs : pc[w] = "done"

\* Stop: case <-done: return nil
StopReturnNil ==
    /\ ~panicked
    /\ stopPc = "waiting"
    /\ wgDone
    /\ stopPc' = "nil"
    /\ UNCHANGED <<cfgVars, chanVars, stopCtxDone, workerVars, callVars, histVars>>

\* Stop: case <-ctx.Done(): return ctx.Err()
StopReturnErr ==
    /\ ~panicked
    /\ stopPc = "waiting"
    /\ stopCtxDone
    /\ stopPc' = "err"
    /\ UNCHANGED <<cfgVars, chanVars, stopCtxDone, workerVars, callVars, histVars>>

\* the context given to Stop expires while Stop waits (an earlier expiry is
\* not looked at before the select)
StopCtxExpire ==
    /\ ~panicked
    /\ stopPc = "waiting"
    /\ ~stopCtxDone
    /\ stopCtxDone' = TRUE
    /\ UNCHANGED <<cfgVars, chanVars, stopPc, workerVars, callVars, histVars>>

(***************************************************************************)
(* Specifications.                                                         *)
(***************************************************************************)
\* the channels as NewWithClient makes them and the callers before their
\* first call; q: the number of AddEvent calls that will be made
Unstarted(q, evs) ==
    /\ event \in evs
    /\ sending = "none"
    /\ ticker = [w \in Workers |-> NewTicker]
    /\ quota = q
    /\ eventChannel = <<>>
    /\ chanClosed = FALSE
    /\ stopChannel = "open"
    /\ nAdded = 0
    /\ panicked = FALSE
    /\ ctxDone = {}
    /\ batch = [w \in Workers |-> <<>>]
    /\ todo = [w \in Workers |-> {}]
    /\ exiting = [w \in Workers |-> FALSE]
    /\ call = [p \in Callers |-> NoCall]
    /\ ret = NoResult
    /\ stopPc = "none"
    /\ stopCtxDone = FALSE
    /\ lateAdd = FALSE
    /\ handed = {}
    /\ fb = [w \in Workers |-> NoFb]

\* NewWithClient with a valid configuration of Cardinality(ws) workers has
\* returned: the started workers wait in their select.  Without workers:
\* only NewClient was called, for direct Client calls.
InitWith(ws, q, evs) ==
    /\ Unstarted(q, evs)
    /\ NewMetricsCollector
    /\ config = RunConfig(IF ws = {} THEN 1 ELSE Cardinality(ws))
    /\ verdict = IF ws = {} THEN "none" ELSE "nil"
    /\ service = IF ws = {} THEN "none" ELSE "running"
    /\ procs = ws
    /\ pc = [p \in Callers |-> IF p \in ws THEN "select"
                               ELSE IF p = Direct THEN "idle" ELSE "off"]

\* the goroutines startBatchProcessors starts, in order
WorkerSeq == <<"w1", "w2">>

\* a startBatchProcessors that starts one worker whatever the count
startOneProcessor(count) == IF count <= 0 THEN {} ELSE {WorkerSeq[1]}

\* startBatchProcessors: count <= 0 logs a warning and starts nothing,
\* otherwise the loop starts count goroutines running processBatches
startBatchProcessors(count) ==
    IF count <= 0 THEN {} ELSE {WorkerSeq[i] : i \in 1..count}

\* New / NewWithClient: config.Validate(); an error ends the process in
\* logger.Fatalf; otherwise the service is made and
\* startBatchProcessors(config.NumberOfEventProcessor) runs
NewWithClient ==
    /\ service = "none"
    /\ verdict = "none"
    /\ verdict' = Validate(config)
    /\ IF verdict' # "nil"
       THEN /\ service' = "fatal"
            /\ UNCHANGED <<procs, pc>>
       ELSE /\ service' = "running"
            /\ procs' = startBatchProcessors(config.NumberOfEventProcessor)
            /\ pc' = [p \in Callers |-> IF p \in procs' THEN "select" ELSE pc[p]]
    /\ UNCHANGED <<config, collectorVars, quota, sending, ticker, chanVars, stopVars, workerVars,
                   call, ret, ctxDone, histVars>>

\* config.Validate() called on its own
CallValidate ==
    /\ verdict = "none"
    /\ verdict' = Validate(config)
    /\ UNCHANGED <<config, service, collectorVars, procs, quota, sending, ticker, chanVars,
                   stopVars, workerVars, callVars, histVars>>

\* the minutes at which CheckHealth is called: before and after 5 minutes
CheckTimes == {0, 4, 5, 6}

\* what no operation of the collector writes
CollectorFrame ==
    UNCHANGED <<config, verdict, service, procs, quota, sending, ticker, chanVars, stopVars,
                workerVars, callVars, histVars>>

\* mc.CheckHealth() at a time now, not before the last check
CallCheckHealth ==
    \E now \in CheckTimes :
        /\ now >= health.LastHealthCheck
        /\ health' = CheckHealth(metrics, now)
        /\ UNCHANGED <<metrics, responseTimes, recorded>>
        /\ CollectorFrame

\* a counter that starts again from 0 at its second increment
incWrapping(n) == (n + 1) % 2

\* mc.metrics.<counter>++
inc(n) == n + 1

\* the latest time.Now() a call has stored: the clock does not run back
Latest ==
    LET a == health.LastHealthCheck
        b == IF metrics.HasError THEN metrics.LastErrorAt ELSE 0
        c == metrics.LastEventProcessedAt
        d == metrics.StartTime
        ab == IF a >= b THEN a ELSE b
        cd == IF c >= d THEN c ELSE d
    IN  IF ab >= cd THEN ab ELSE cd

\* the calls counted so far; at most MaxOps of them are made
CountedOps ==
    metrics.EventsQueued + metrics.EventsProcessed + metrics.EventsFailed
    + metrics.BatchesProcessed + metrics.BatchesFailed + metrics.HTTPRequestsTotal

\* what the counters and the window leave alone
KeepHealth == UNCHANGED health /\ CollectorFrame
KeepWindow == UNCHANGED <<responseTimes, recorded>>

IncrementEventsProcessed(now) ==
    /\ CountedOps < MaxOps
    /\ now >= Latest
    /\ metrics' = [metrics EXCEPT !.EventsProcessed = inc(@),
                                  !.LastEventProcessedAt = now]
    /\ KeepWindow /\ KeepHealth

IncrementEventsQueued ==
    /\ CountedOps < MaxOps
    /\ metrics' = [metrics EXCEPT !.EventsQueued = inc(@)]
    /\ KeepWindow /\ KeepHealth

\* err: the error's message, "nil" for a nil error
IncrementEventsFailed(err, now) ==
    /\ CountedOps < MaxOps
    /\ now >= Latest
    /\ metrics' = [metrics EXCEPT !.EventsFailed = inc(@),
                                  !.HasError = TRUE, !.LastErrorAt = now,
                                  !.LastError = IF err # "nil" THEN err ELSE @]
    /\ KeepWindow /\ KeepHealth

IncrementBatchesProcessed ==
    /\ CountedOps < MaxOps
    /\ metrics' = [metrics EXCEPT !.BatchesProcessed = inc(@)]
    /\ KeepWindow /\ KeepHealth

IncrementBatchesFailed(err, now) ==
    /\ CountedOps < MaxOps
    /\ now >= Latest
    /\ metrics' = [metrics EXCEPT !.BatchesFailed = inc(@),
                                  !.HasError = TRUE, !.LastErrorAt = now,
                                  !.LastError = IF err # "nil" THEN err ELSE @]
    /\ KeepWindow /\ KeepHealth

RECURSIVE SumSeq(_)
SumSeq(q) == IF q = <<>> THEN 0 ELSE Head(q) + SumSeq(Tail(q))

\* a window that refuses the new sample once it is full
slideKeepOldest(w, rt) == IF Len(w) >= maxResponseTimes THEN w ELSE Append(w, rt)

\* mc.responseTimes = append(mc.responseTimes, responseTime); beyond
\* maxResponseTimes: mc.responseTimes = mc.responseTimes[1:]
slide(w, rt) ==
    LET a == Append(w, rt)
    IN  IF Len(a) > maxResponseTimes THEN Tail(a) ELSE a

\* total / time.Duration(len(mc.responseTimes)) over the window, when it is
\* not empty (durations are not negative: the quotient truncates)
average(w, old) == IF Len(w) > 0 THEN SumSeq(w) \div Len(w) ELSE old

RecordHTTPRequest(success, rt) ==
    /\ CountedOps < MaxOps
    /\ LET w == slide(responseTimes, rt)
       IN  /\ metrics' =
                 [metrics EXCEPT
                    !.HTTPRequestsTotal = inc(@),
                    !.HTTPRequestsSuccess = IF success THEN inc(@) ELSE @,
                    !.HTTPRequestsFailure = IF success THEN @ ELSE inc(@),
                    !.TotalResponseTime = @ + rt,
                    !.MaxResponseTime = IF rt > @ THEN rt ELSE @,
                    !.MinResponseTime = IF rt < @ \/ @ = 0 THEN rt ELSE @,
                    !.AverageResponseTime = average(w, @)]
           /\ responseTimes' = w
    /\ recorded' = Append(recorded, rt)
    /\ KeepHealth

UpdateQueueMetrics(size, cap) ==
    /\ metrics' = [metrics EXCEPT !.QueueSize = size, !.QueueCapacity = cap]
    /\ KeepWindow /\ KeepHealth

UpdateActiveProcessors(count) ==
    /\ metrics' = [metrics EXCEPT !.ActiveProcessors = count]
    /\ KeepWindow /\ KeepHealth

\* a GetHealthStatus that computes the status from the present metrics
GetHealthStatusFresh(h, m) == CheckHealth(m, h.LastHealthCheck)

\* GetHealthStatus: *mc.healthStatus, which is never nil
GetHealthStatus(h, m) == h

\* Reset: new Metrics and a new HealthStatus as in NewMetricsCollector, with
\* the present time, and an empty window
Reset(now) ==
    /\ now >= Latest
    /\ metrics' = [Metrics(0, 0, 0, 0, 0, 0, 0, FALSE, 0) EXCEPT !.StartTime = now]
    /\ health' = HealthStatus("starting", "", "", "", now)
    /\ responseTimes' = <<>>
    /\ recorded' = <<>>
    /\ CollectorFrame

\* the steps of the program; a process that panicked takes none
Producer(cs) == \E c \in cs : AddEvent(c)
Transport(p, outs) ==
    \E o \in outs : \E bad \in SUBSET Carried(call[p]) : TransportRespond(p, o, bad)
CancelCtx == \E c \in Cancellable : Cancel(c)

\* the pipeline with one worker: producers, the worker, Stop, cancellation
Next ==
    \/ Producer(Contexts)
    \/ \E w \in Workers : receive(w) \/ receiveClosed(w) \/ tick(w) \/ stopSignal(w)
    \/ \E w \in Workers : Transport(w, ClassOutcomes)
    \/ \E w \in Workers : BackoffElapsed(w) \/ BackoffCancelled(w)
    \/ CancelCtx
    \/ StopSignalWorkers \/ StopCloseQueue \/ StopReturnNil
    \/ StopReturnErr \/ StopCtxExpire
Init == InitWith({"w1"}, MaxEvents, Traces)
Spec == Init /\ [][Next]_vars

\* the pool of two workers with Stop; the producers use context.Background()
PoolInit == InitWith(Workers, PoolEvents, Traces)
PoolNext ==
    \/ Producer({"bg"})
    \/ \E w \in Workers : receive(w) \/ receiveClosed(w) \/ tick(w) \/ stopSignal(w)
    \/ \E w \in Workers : Transport(w, ClassOutcomes)
    \/ \E w \in Workers : BackoffElapsed(w)
    \/ StopSignalWorkers \/ StopCloseQueue \/ StopReturnNil
    \/ StopReturnErr \/ StopCtxExpire
PoolSpec == PoolInit /\ [][PoolNext]_vars

\* Scheduling: a select takes a case that stays ready (the ticker fires
\* every BatchTimeout, a closed channel stays closed), a timer fires, and
\* every HTTP round trip ends (http.Client.Timeout).
Fairness ==
    \A w \in Workers :
        /\ WF_vars(receive(w))
        /\ WF_vars(tick(w))
        /\ WF_vars(stopSignal(w) \/ receiveClosed(w))
        /\ WF_vars(Transport(w, ClassOutcomes))
        /\ WF_vars(BackoffElapsed(w) \/ BackoffCancelled(w))

\* the pool with Stop, under this scheduling
FairSpec == PoolSpec /\ Fairness

\* one worker while Stop is never called
LiveNext ==
    \/ Producer(Contexts)
    \/ \E w \in Workers : receive(w) \/ tick(w)
    \/ \E w \in Workers : Transport(w, ClassOutcomes)
    \/ \E w \in Workers : BackoffElapsed(w) \/ BackoffCancelled(w)
    \/ CancelCtx
LiveSpec == Init /\ [][LiveNext]_vars /\ Fairness

\* Client.Send and Client.SendBatch called directly, with every outcome of a
\* round trip; no pipeline is started
DirectBatches == {<<1>>, <<2>>, <<1, 2>>}
RetryInit == InitWith({}, MaxEvents, TracesWithID)
RetryNext ==
    \/ \E kind \in {"single", "batch"} : \E evs \in DirectBatches :
          \E c \in Contexts : DirectCall(kind, evs, c)
    \/ Transport(Direct, AllOutcomes)
    \/ BackoffElapsed(Direct) \/ BackoffCancelled(Direct)
    \/ CancelCtx
RetrySpec == RetryInit /\ [][RetryNext]_vars

\* one worker and callers that submit events of every variant, with and
\* without an ID; the API answers 200 (listing errors or not) or 400
SubmitOutcomes == {OkOutcome, Outcome("http", 400)}
SubmitInit == InitWith({"w1"}, BatchSize, AnyEvents(BatchSize, Variants))
SubmitNext ==
    \/ Producer({"bg"})
    \/ \E w \in Workers : receive(w) \/ tick(w)
    \/ \E w \in Workers : Transport(w, SubmitOutcomes)
    \/ \E w \in Workers : RejectUnknown(w)
SubmitSpec == SubmitInit /\ [][SubmitNext]_vars

\* construction with a worker count of -1, 0, 1 or 2, then the pipeline
ConstructInit ==
    /\ Unstarted(BatchSize, Traces)
    /\ NewMetricsCollector
    /\ config \in {RunConfig(n) : n \in -1..Len(WorkerSeq)}
    /\ verdict = "none"
    /\ service = "none"
    /\ procs = {}
    /\ pc = [p \in Callers |-> IF p = Direct THEN "idle" ELSE "off"]
ConstructNext ==
    \/ NewWithClient
    \/ Producer({"bg"})
    \/ \E w \in Workers : receive(w) \/ tick(w)
    \/ \E w \in Workers : Transport(w, ClassOutcomes)
    \/ \E w \in Workers : BackoffElapsed(w)
ConstructSpec == ConstructInit /\ [][ConstructNext]_vars

\* Validate applied to every configuration of AllConfigs
ValidateInit ==
    /\ Unstarted(PoolEvents, Traces)
    /\ NewMetricsCollector
    /\ config \in AllConfigs
    /\ verdict = "none"
    /\ service = "none"
    /\ procs = {}
    /\ pc = [p \in Callers |-> IF p = Direct THEN "idle" ELSE "off"]
ValidateNext == CallValidate
ValidateSpec == ValidateInit /\ [][ValidateNext]_vars

\* CheckHealth applied to a collector whose gauges and request counters
\* stand on, below and above each threshold, with and without a recorded
\* error (at minute 0)
HealthInputs ==
    {m \in {Metrics(0, 0, size, cap, n, total, failure, hasErr, 0) :
               size \in {0, 7, 8, 9, 10}, cap \in {0, 10}, n \in {0, 1},
               total \in {0, 100}, failure \in {0, 5, 6, 10, 11},
               hasErr \in BOOLEAN} :
        m.HTTPRequestsFailure <= m.HTTPRequestsTotal}
HealthInit ==
    /\ Unstarted(PoolEvents, Traces)
    /\ metrics \in HealthInputs
    /\ health = HealthStatus("starting", "", "", "", 0)
    /\ responseTimes = [k \in 1..Min(metrics.HTTPRequestsTotal, maxResponseTimes) |-> 1]
    /\ recorded = responseTimes
    /\ config = RunConfig(1)
    /\ verdict = "none"
    /\ service = "none"
    /\ procs = {}
    /\ pc = [p \in Callers |-> IF p = Direct THEN "idle" ELSE "off"]
HealthNext == CallCheckHealth
HealthSpec == HealthInit /\ [][HealthNext]_vars

\* Client.Send and Client.SendBatch called directly with a usable or blank
\* URL and with events that are of a known type or not, valid or not
URLs == {"url", "", " "}
Refusable ==
    {[NewEvent(v, CallerID(1)) EXCEPT !.valid = ok] :
        v \in {"TraceEvent", "Other"}, ok \in BOOLEAN}
PrecheckInit ==
    /\ Unstarted(MaxEvents, {h \in [EventIDs -> Refusable] :
                                \A e \in EventIDs :
                                    e > 2 => h[e] = NewEvent("TraceEvent", CallerID(1))})
    /\ NewMetricsCollector
    /\ config \in {[RunConfig(1) EXCEPT !.URL = u] : u \in URLs}
    /\ verdict = "none"
    /\ service = "none"
    /\ procs = {}
    /\ pc = [p \in Callers |-> IF p = Direct THEN "idle" ELSE "off"]
PrecheckNext ==
    \/ \E kind \in {"single", "batch"} : \E evs \in DirectBatches :
          DirectCall(kind, evs, "bg")
    \/ Transport(Direct, SubmitOutcomes \cup {Outcome("http", 503)})
    \/ BackoffElapsed(Direct)
    \/ Reject(Direct)
PrecheckSpec == PrecheckInit /\ [][PrecheckNext]_vars

\* Stop while AddEvent calls are under way: every AddEvent begins before
\* Stop is called, and every round trip succeeds
EarlyAddEvent == stopPc = "none" /\ \E c \in {"bg"} : beginAddEvent(c)
RaceNext ==
    \/ EarlyAddEvent
    \/ channelSend
    \/ \E w \in Workers : receive(w) \/ receiveClosed(w) \/ tick(w) \/ stopSignal(w)
    \/ \E w \in Workers : Transport(w, {OkOutcome})
    \/ StopSignalWorkers \/ StopCloseQueue \/ StopReturnNil
    \/ StopReturnErr \/ StopCtxExpire
RaceSpec == Init /\ [][RaceNext]_vars

\* Stop called a second time; every AddEvent is over before the first Stop
EarlyProducer == stopPc = "none" /\ Producer({"bg"})
StopTwiceNext ==
    \/ EarlyProducer
    \/ \E w \in Workers : receive(w) \/ receiveClosed(w) \/ tick(w) \/ stopSignal(w)
    \/ \E w \in Workers : Transport(w, {OkOutcome})
    \/ StopSignalWorkers \/ StopCloseQueue \/ StopReturnNil
    \/ StopReturnErr \/ StopCtxExpire
    \/ StopAgain
StopTwiceSpec == Init /\ [][StopTwiceNext]_vars

\* Client.Send and Client.SendBatch called directly under each configuration
\* that Validate accepts and that differs from the usual one in MaxRetries
\* only: -1, or MaxRetries
AttemptInit ==
    /\ Unstarted(MaxEvents, TracesWithID)
    /\ NewMetricsCollector
    /\ config \in {c \in {[RunConfig(1) EXCEPT !.MaxRetries = m] : m \in {-1, MaxRetries}} :
                      Validate(c) = "nil"}
    /\ verdict = "nil"
    /\ service = "none"
    /\ procs = {}
    /\ pc = [p \in Callers |-> IF p = Direct THEN "idle" ELSE "off"]
AttemptNext ==
    \/ \E kind \in {"single", "batch"} : \E evs \in DirectBatches :
          DirectCall(kind, evs, "bg")
    \/ Transport(Direct, AllOutcomes)
    \/ BackoffElapsed(Direct)
    \/ NoAttempt(Direct)
AttemptSpec == AttemptInit /\ [][AttemptNext]_vars

\* one worker under a clock, while Stop is never called and every round trip
\* succeeds
TimerNext ==
    \/ Producer({"bg"})
    \/ \E w \in Workers : timedReceive(w) \/ timedTick(w)
    \/ \E w \in Workers : Transport(w, {OkOutcome})
    \/ Elapse
TimerSpec == Init /\ [][TimerNext]_vars

\* a collector on its own: every operation, in any order, at minute 0 or 5
CollectorTimes == {0, 5}
CollectorInit ==
    /\ Unstarted(PoolEvents, Traces)
    /\ NewMetricsCollector
    /\ config = RunConfig(1)
    /\ verdict = "none"
    /\ service = "none"
    /\ procs = {}
    /\ pc = [p \in Callers |-> IF p = Direct THEN "idle" ELSE "off"]
CheckHealthAt(times) ==
    \E now \in times :
        /\ now >= Latest
        /\ health' = CheckHealth(metrics, now)
        /\ UNCHANGED <<metrics, responseTimes, recorded>>
        /\ CollectorFrame
CollectorNext ==
    \/ \E now \in CollectorTimes : IncrementEventsProcessed(now)
    \/ IncrementEventsQueued
    \/ \E now \in CollectorTimes : IncrementEventsFailed("timeout", now)
    \/ IncrementBatchesProcessed
    \/ \E now \in CollectorTimes : IncrementBatchesFailed("timeout", now)
    \/ \E ok \in BOOLEAN : RecordHTTPRequest(ok, 1)
    \/ UpdateQueueMetrics(8, 10)
    \/ UpdateActiveProcessors(1)
    \/ CheckHealthAt(CollectorTimes)
    \/ \E now \in CollectorTimes : Reset(now)
CollectorSpec == CollectorInit /\ [][CollectorNext]_vars

\* requests of every duration recorded one after the other: none, one
\* minute, more than the hour MinResponseTime starts with
Durations == {0, 1, 61}
WindowNext ==
    \/ \E ok \in BOOLEAN : \E rt \in Durations : RecordHTTPRequest(ok, rt)
    \/ Reset(0)
WindowSpec == CollectorInit /\ [][WindowNext]_vars

(***************************************************************************)
(* Properties.                                                             *)
(***************************************************************************)
\* a worker is inside a Client call
InCall(w) == pc[w] \in {"transport", "backoff", "woken"}

\* every started worker has returned from processBatches
AllExited == \A w \in procs : pc[w] = "done"

\* C1 (graceful drain): when Stop returns nil, its context did not expire
\* and no AddEvent was made after Stop was called, every accepted event has
\* been passed to Client.SendBatch or Client.Send, and none is left in the
\* queue or in a worker's pending list.
GracefulDrain ==
    (stopPc = "nil" /\ ~stopCtxDone /\ ~lateAdd) =>
        /\ \A e \in 1..nAdded : e \in handed
        /\ eventChannel = <<>>
        /\ \A w \in procs : batch[w] = <<>>

\* C2 (batch size bound): every batch in a SendBatch call of a worker holds
\* at least 1 and at most BatchSize events, and a worker that flushes an
\* empty pending list (a tick, a stop signal or a closed queue with nothing
\* pending) starts no Client call.
BatchWithinBound ==
    \A w \in Workers :
        call[w].kind = "batch" =>
            Len(call[w].events) >= 1 /\ Len(call[w].events) <= BatchSize
EmptyFlushIsNoOp ==
    \A w \in Workers :
        (pc[w] = "select" /\ batch[w] = <<>> /\ eventChannel' = eventChannel)
            => (call'[w] = NoCall /\ handed' = handed)
BatchSizeBound == []BatchWithinBound /\ [][EmptyFlushIsNoOp]_vars
FullBatchSent ==
    \E w \in Workers :
        /\ pc[w] = "transport" /\ call[w].kind = "batch"
        /\ Len(call[w].events) = BatchSize

\* the classes of failure the retry policy names
NetworkLevel(e) == e.code \in {"CONNECTION_FAILED", "NETWORK_TIMEOUT"}
Http5xx(e) == e.type = "API" /\ e.status >= 500 /\ e.status <= 599
Http429(e) == e.type = "API" /\ e.status = 429
Http4xxOther(e) ==
    e.type = "API" /\ e.status >= 400 /\ e.status <= 499 /\ e.status # 429
\* the direct caller's round trip ends in this step
AttemptEnds == pc[Direct] = "transport" /\ pc'[Direct] # "transport"
\* ... and the send returns with that attempt's failure
ReturnsFailure == AttemptEnds /\ pc'[Direct] = "idle" /\ ret'.cause # NoErr

\* C3 (retry exhaustion): a send makes at most MaxRetries+1 calls of
\* sendEvent, and a send that returns without its context's error after an
\* attempt that failed with a retryable error (every attempt before it then
\* failed with one too) made exactly MaxRetries+1 and returns the terminal
\* failure REQUEST_FAILED.
RetryExhaustion ==
    /\ call[Direct].n <= MaxRetries + 1
    /\ ret.n <= MaxRetries + 1
    /\ (ret.at = "transport" /\ IsRetryable(ret.cause)) =>
           (ret.n = MaxRetries + 1 /\ ret.res = "REQUEST_FAILED")
Exhausted ==
    /\ ret.at = "transport" /\ IsRetryable(ret.cause)
    /\ ret.n = MaxRetries + 1 /\ ret.res = "REQUEST_FAILED"

CancelledInBackoff ==
    [][/\ (pc[Direct] = "backoff" /\ call[Direct].ctx \notin ctxDone
            /\ call[Direct].ctx \in ctxDone') => pc'[Direct] = "woken"
       /\ (pc[Direct] = "woken" /\ pc'[Direct] # "woken") =>
            /\ pc'[Direct] = "idle"
            /\ ret' = [res |-> "context", n |-> call[Direct].n,
                        cause |-> call[Direct].lastErr, at |-> "woken"]
      ]_vars
ReturnedFromWait == ret.at = "woken" /\ ret.res = "context" /\ ret.n <= MaxRetries

\* the events the fallback loop of worker w has sent so far with Client.Send
\* and got a result for
Settled(w) == fb[w].ok \cup fb[w].failed
\* worker w is in the fallback loop of sendBatch
InFallback(w) == InCall(w) /\ call[w].kind = "single"
\* worker w has left the sendBatch whose SendBatch returned an error
FallbackOver(w) == ~InCall(w) /\ fb[w].cause # "nil"

OneRejected(w) ==
    /\ fb[w].cause = "BATCH_PROCESSING"
    /\ Cardinality(fb[w].evs \ fb[w].acc) = 1

\* C6 as stated (partial API failure): after a batch response that rejects
\* exactly one event, that event is sent again individually and no event
\* the API accepted is sent a second time.
OnlyRejectedResent ==
    \A w \in Workers :
        (InFallback(w) /\ OneRejected(w)) =>
            call[w].events[call[w].idx] \notin fb[w].acc

\* C6 as amended: after a batch response that rejects exactly one event,
\* every event of the batch is sent again individually, the rejected one and
\* each of those the API accepted.
WholeBatchResent ==
    \A w \in Workers :
        OneRejected(w) =>
            /\ InFallback(w) => Range(call[w].events) = fb[w].evs
            /\ FallbackOver(w) =>
                   (fb[w].acc \subseteq Settled(w)
                    /\ (fb[w].evs \ fb[w].acc) \subseteq Settled(w))
AcceptedResent ==
    \E w \in Workers :
        /\ FallbackOver(w) /\ OneRejected(w)
        /\ fb[w].acc # {} /\ fb[w].acc \subseteq Settled(w)

\* C7 (latency bound and eventual delivery): while Stop is not called,
\* every accepted event is eventually passed to Client.SendBatch or
\* Client.Send, also when the pending list never reaches BatchSize; and a
\* flush, once begun, holds every pending event either passed on already or
\* in a context group that this flush still sends.
EventuallyHanded == \A e \in EventIDs : (nAdded >= e) ~> (e \in handed)
FlushCoversPending ==
    \A w \in Workers :
        InCall(w) =>
            \A k \in 1..Len(batch[w]) :
                batch[w][k].id \in handed \/ batch[w][k].ctx \in todo[w]
StopResult ==
    /\ stopPc = "nil" => AllExited
    /\ stopPc = "err" => stopCtxDone
StopLeavesWorkers ==
    (stopPc # "err" /\ stopPc' = "err") =>
        UNCHANGED <<pc, call, workerVars, chanVars, histVars>>
StopOutcomes ==
    /\ []StopResult
    /\ [][StopLeavesWorkers]_vars
    /\ (stopPc = "err") ~> (AllExited \/ panicked)
\* Stop has returned the error and a worker is still sending
RunningAfterStopErr ==
    /\ stopPc = "err"
    /\ \E w \in procs : InCall(w)

\* C9 (worker shutdown): after Stop is called every worker eventually
\* returns from processBatches (unless the process dies of an AddEvent on
\* the closed queue); a worker that has seen the stop signal or the closed
\* queue never goes back to its select and does not take up further events,
\* and its pending list is empty when it has returned.
ExitClean ==
    \A w \in procs :
        /\ exiting[w] => pc[w] # "select"
        /\ pc[w] = "done" => (exiting[w] /\ batch[w] = <<>> /\ todo[w] = {})
OneFinalFlush ==
    \A w \in procs :
        exiting[w] => (exiting'[w] /\ batch'[w] \in {batch[w], <<>>})
WorkerShutdown ==
    /\ (stopPc # "none") ~> (AllExited \/ panicked)
    /\ []ExitClean
    /\ [][OneFinalFlush]_vars
\* every worker has returned, one of them after a final flush that sent
\* its pending events (and fell back to single sends)
ExitedAfterFlush ==
    /\ stopPc # "none" /\ AllExited
    /\ \E w \in procs : fb[w].cause # "nil"

Slots(id) == {k \in 1..Len(eventChannel) : eventChannel[k].id = id}

\* C12 (bounded queue): the queue never holds more than its capacity; an
\* AddEvent returns only from a state in which the queue had a free slot, and
\* the step that returns appends exactly one envelope, carrying the new
\* event, and drops nothing; no event is in the queue twice.
QueueBound ==
    /\ [](Len(eventChannel) <= QueueCap)
    /\ [](\A id \in EventIDs : Cardinality(Slots(id)) <= 1)
    /\ [][nAdded' # nAdded =>
            /\ Len(eventChannel) < QueueCap
            /\ nAdded' = nAdded + 1
            /\ Len(eventChannel') = Len(eventChannel) + 1
            /\ SubSeq(eventChannel', 1, Len(eventChannel)) = eventChannel
            /\ eventChannel'[Len(eventChannel')].id = nAdded']_vars
\* the queue is full again after an AddEvent that had to wait for a worker to
\* take an envelope out of the full queue
RefilledAfterBlocking ==
    /\ Len(eventChannel) = QueueCap
    /\ nAdded > QueueCap

\* C13 (event identifier): AddEvent returns the ID of the event it enqueued;
\* an ID the caller supplied is returned unchanged; an event without one has
\* a new ID before it is in the queue; and no step changes an ID once the
\* event has one.
IdentifierAssigned ==
    /\ [](\A e \in 1..nAdded :
            /\ event[e].id # Nil
            /\ event[e].ret = event[e].id
            /\ event[e].given # Nil => event[e].ret = event[e].given
            /\ event[e].given = Nil => event[e].ret.by = "uuid.New")
    /\ [](\A e \in IdsOf(eventChannel) : event[e].id # Nil)
    /\ [][\A e \in EventIDs : event[e].id # Nil => event'[e].id = event[e].id]_vars
\* an event submitted without an ID and one submitted with an ID have both
\* gone through a failed batch and the fallback sends
BothKindsProcessed ==
    \E e1, e2 \in 1..nAdded :
        /\ event[e1].given = Nil
        /\ event[e2].given # Nil
        /\ {e1, e2} \subseteq (fb["w1"].ok \cup fb["w1"].failed)

\* a caller has a further event to submit to the running service and the
\* queue has a free slot
CanSubmit ==
    /\ ~panicked
    /\ ~chanClosed
    /\ nAdded < quota
    /\ Len(eventChannel) < QueueCap
\* every worker is inside a Client call: in a round trip or in a backoff wait
AllBlocked == procs # {} /\ \A w \in procs : InCall(w)

\* C14 (AddEvent returns before delivery): whenever the queue of the running
\* service has a free slot, AddEvent can enqueue and return, whatever the
\* workers are doing, and its step waits for no step of a Client call: it
\* leaves every worker, every call and every context where it was.
ReturnsBeforeDelivery ==
    /\ [](CanSubmit => ENABLED Producer(Contexts))
    /\ [][nAdded' # nAdded =>
            /\ eventChannel' # eventChannel
            /\ UNCHANGED <<workerVars, callVars, handed>>]_vars
\* an event is in the queue and a further one can be submitted while the
\* only worker is in a backoff wait
SubmitDuringBackoff ==
    /\ AllBlocked
    /\ \E w \in procs : pc[w] = "backoff"
    /\ CanSubmit
    /\ Len(eventChannel) > 0

\* a worker's latest sendBatch met a delivery failure: the batch send
\* returned an error (and a fallback send may have failed too)
MetFailure(w) == fb[w].cause # "nil"

\* C15 (fire-and-forget failures): while the service runs, no delivery
\* failure reaches a caller of AddEvent (AddEvent returns the event's ID and
\* nothing panics), and a worker that met a delivery failure is still
\* running and passes every event that waits in the queue to the client.
FireAndForget ==
    /\ [](~panicked)
    /\ [][nAdded' # nAdded => event'[nAdded'].ret = event'[nAdded'].id]_vars
    /\ [](\A w \in procs : pc[w] # "done")
    /\ \A e \in EventIDs :
          ((\E w \in procs : MetFailure(w)) /\ e \in IdsOf(eventChannel))
              ~> (e \in handed)
\* the worker is back in its select after a failed batch send and a failed
\* fallback send, with an event waiting in the queue
BackInSelectAfterFailure ==
    \E w \in procs :
        /\ MetFailure(w)
        /\ fb[w].failed # {}
        /\ pc[w] = "select"
        /\ Len(eventChannel) > 0

\* C16 (unknown variants): an event whose type is none of trace-create,
\* span-create, generation-create and score-create never enters the queue.
UnknownNeverQueued ==
    \A e \in IdsOf(eventChannel) : getEventType(event[e].variant) # "unknown"

\* the started workers all read the one queue: each of them waiting in its
\* select can take the envelope at the head of eventChannel
SharedQueue ==
    \A w \in procs :
        (~panicked /\ pc[w] = "select" /\ Len(eventChannel) > 0) => ENABLED receive(w)

\* C17 as stated (worker count): construction starts exactly
\* NumberOfEventProcessor workers, all reading the one queue; with a count
\* of 0 it starts no worker and returns a service to which events can be
\* added, which then stay in the queue.
ZeroWorkersService ==
    /\ service = "running" =>
          /\ Cardinality(procs) = config.NumberOfEventProcessor
          /\ SharedQueue
    /\ (verdict # "none" /\ config.NumberOfEventProcessor = 0) =>
          /\ service = "running"
          /\ procs = {}
          /\ IdsOf(eventChannel) = 1..nAdded

\* C17 as amended: a service that construction returned runs exactly
\* NumberOfEventProcessor >= 1 workers, all reading the one queue; with a
\* count of 0 or less Validate returns an error, construction ends the
\* process and there is no service, no worker and no queued event.
WorkerCount ==
    /\ service = "running" =>
          /\ config.NumberOfEventProcessor >= 1
          /\ Cardinality(procs) = config.NumberOfEventProcessor
          /\ SharedQueue
    /\ (verdict # "none" /\ config.NumberOfEventProcessor <= 0) =>
          /\ service = "fatal"
          /\ procs = {}
          /\ nAdded = 0
\* two workers were started and one of them took the event from the queue
\* both read
TwoWorkersStarted ==
    /\ service = "running"
    /\ config.NumberOfEventProcessor = 2
    /\ procs = {"w1", "w2"}
    /\ pc["w1"] = "select"
    /\ batch["w2"] # <<>>

\* a required field is empty, a count is below its minimum or a duration is
\* not positive
OutOfRange(c) ==
    \/ c.URL = "" \/ c.PublicKey = "" \/ c.SecretKey = ""
    \/ c.NumberOfEventProcessor < 1
    \/ c.BatchSize < 1
    \/ c.MaxRetries < 0
    \/ c.BatchTimeout <= 0 \/ c.Timeout <= 0

\* C18 (configuration validation): Validate returns an error for every
\* configuration in which a required field is empty, NumberOfEventProcessor
\* or BatchSize is below 1, MaxRetries is negative or a duration is not
\* positive; it returns nil only when none of these is the case.
ValidateRejectsOutOfRange ==
    (verdict # "none" /\ OutOfRange(config)) => verdict # "nil"

\* a Client call of worker w returns in this step
Returns(w) ==
    /\ InCall(w)
    /\ ~InCall(w)' \/ (call'[w] # call[w] /\ call'[w].i = 0 /\ call'[w].n = 1)

\* C19 (metrics on every outcome): a batch send that returns nil adds its
\* events to EventsProcessed, a fallback send that returns nil adds one, and
\* a fallback send that fails for good adds one to EventsFailed.
MetricsFollowOutcomes ==
    [][\A w \in procs :
        /\ (Returns(w) /\ call[w].kind = "batch" /\ fb'[w].cause = "nil") =>
              metrics'.EventsProcessed =
                  metrics.EventsProcessed + Cardinality(Range(call[w].events))
        /\ (Returns(w) /\ fb'[w].ok # fb[w].ok /\ fb'[w].ok # {}) =>
              metrics'.EventsProcessed = metrics.EventsProcessed + 1
        /\ (Returns(w) /\ fb'[w].failed # fb[w].failed /\ fb'[w].failed # {}) =>
              metrics'.EventsFailed = metrics.EventsFailed + 1]_vars

\* C20 (overall health): the status CheckHealth stores is unhealthy when the
\* queue, the processors (no active processor) or the API is critical;
\* otherwise degraded when the queue or the API is warning or an error was
\* recorded less than 5 minutes before the check; otherwise healthy.  An API
\* health of unknown (no request yet) lowers nothing.
HealthIsWorst ==
    health.Status # "starting" =>
        LET critical == \/ health.QueueHealth = "critical"
                        \/ health.ProcessorHealth = "critical"
                        \/ health.APIHealth = "critical"
            warning == \/ health.QueueHealth = "warning"
                       \/ health.APIHealth = "warning"
                       \/ (metrics.HasError
                           /\ health.LastHealthCheck - metrics.LastErrorAt < 5)
        IN  /\ health.ProcessorHealth = "critical" <=> metrics.ActiveProcessors = 0
            /\ health.APIHealth = "unknown" <=> metrics.HTTPRequestsTotal = 0
            /\ health.Status = IF critical THEN "unhealthy"
                               ELSE IF warning THEN "degraded" ELSE "healthy"
\* a check with no active processor and an API error rate in the warning
\* range: unhealthy, not degraded
CriticalWithWarning ==
    /\ health.Status = "unhealthy"
    /\ health.ProcessorHealth = "critical"
    /\ health.QueueHealth = "healthy"
    /\ health.APIHealth = "warning"

\* C21 (queue health thresholds): the queue is critical exactly when
\* size/capacity > 0.9, warning exactly when the ratio is > 0.7 and not
\* > 0.9, healthy otherwise; a ratio of exactly 0.9 is warning and one of
\* exactly 0.7 is healthy.
QueueThresholds ==
    health.Status # "starting" =>
        LET over9 == 10 * metrics.QueueSize > 9 * metrics.QueueCapacity
            over7 == 10 * metrics.QueueSize > 7 * metrics.QueueCapacity
        IN  /\ health.QueueHealth = "critical" <=> over9
            /\ health.QueueHealth = "warning" <=> (over7 /\ ~over9)
            /\ health.QueueHealth = "healthy" <=> ~over7
            /\ (metrics.QueueCapacity > 0
                    /\ 10 * metrics.QueueSize = 9 * metrics.QueueCapacity)
                  => health.QueueHealth = "warning"
            /\ (metrics.QueueCapacity > 0
                    /\ 10 * metrics.QueueSize = 7 * metrics.QueueCapacity)
                  => health.QueueHealth = "healthy"
\* a check of a queue that is exactly nine tenths full
NineTenthsIsWarning ==
    /\ health.Status # "starting"
    /\ metrics.QueueCapacity > 0
    /\ 10 * metrics.QueueSize = 9 * metrics.QueueCapacity
    /\ health.QueueHealth = "warning"

\* C22 (API health thresholds): with no HTTP request recorded the API health
\* is unknown; otherwise it is critical exactly when failed/total > 0.10,
\* warning exactly when the rate is > 0.05 and not > 0.10, healthy otherwise.
APIThresholds ==
    health.Status # "starting" =>
        LET some == metrics.HTTPRequestsTotal > 0
            over10 == 10 * metrics.HTTPRequestsFailure > metrics.HTTPRequestsTotal
            over5 == 100 * metrics.HTTPRequestsFailure > 5 * metrics.HTTPRequestsTotal
        IN  /\ health.APIHealth = "unknown" <=> ~some
            /\ health.APIHealth = "critical" <=> (some /\ over10)
            /\ health.APIHealth = "warning" <=> (some /\ over5 /\ ~over10)
            /\ health.APIHealth = "healthy" <=> (some /\ ~over5)
\* a check after requests of which exactly one tenth failed
TenthFailedIsWarning ==
    /\ health.Status # "starting"
    /\ metrics.HTTPRequestsTotal > 0
    /\ 10 * metrics.HTTPRequestsFailure = metrics.HTTPRequestsTotal
    /\ health.APIHealth = "warning"


\* C23: GetHealthStatus returns what the most recent CheckHealth (or Reset)
\* stored and does not compute it again: a step that leaves the stored
\* status alone, whatever it does to the metrics, leaves the answer of
\* GetHealthStatus alone, and a step that changes the answer is a CheckHealth
\* over the metrics of that moment or a Reset.
CachedHealth ==
    [][LET before == GetHealthStatus(health, metrics)
           after == GetHealthStatus(health', metrics')
       IN  \/ after = before
           \/ /\ metrics' = metrics
              /\ after = CheckHealth(metrics, after.LastHealthCheck)
           \/ /\ after.Status = "starting"
              /\ metrics'.HTTPRequestsTotal = 0
              /\ responseTimes' = <<>>]_vars

\* the metrics moved on after a CheckHealth: the stored status is no longer
\* what a CheckHealth would find
StaleHealth ==
    /\ GetHealthStatus(health, metrics).Status = "unhealthy"
    /\ GetHealthStatus(health, metrics).ProcessorHealth = "critical"
    /\ CheckHealth(metrics, health.LastHealthCheck).Status # "unhealthy"
    /\ metrics.ActiveProcessors = 1

\* the counters of Metrics
Counters ==
    {"EventsQueued", "EventsProcessed", "EventsFailed", "BatchesProcessed",
     "BatchesFailed", "HTTPRequestsTotal", "HTTPRequestsSuccess",
     "HTTPRequestsFailure"}

\* C24: in every step of the collector no counter decreases, unless the
\* step is a Reset, which sets every counter to zero, empties the window and
\* stores the status "starting".
MonotoneCounters ==
    [][\/ \A f \in Counters : metrics'[f] >= metrics[f]
       \/ /\ \A f \in Counters : metrics'[f] = 0
          /\ responseTimes' = <<>>
          /\ health'.Status = "starting"]_vars

\* counters that went up twice, after a Reset at minute 5
CountedTwiceAfterReset ==
    /\ metrics.StartTime = 5
    /\ metrics.HTTPRequestsTotal = 2
    /\ metrics.HTTPRequestsFailure = 2
    /\ metrics.EventsFailed = 1

\* the last k elements of q
LastOf(q, k) == SubSeq(q, Len(q) - k + 1, Len(q))

\* C25: the window of response times never holds more than maxResponseTimes
\* samples; after n recordings (since the collector was made or reset) it
\* holds the last min(n, maxResponseTimes) of them in the order they were
\* recorded, and AverageResponseTime is the integer mean of the window.
RollingWindow ==
    LET n == Len(recorded)
        k == IF n <= maxResponseTimes THEN n ELSE maxResponseTimes
    IN  /\ Len(responseTimes) <= maxResponseTimes
        /\ responseTimes = LastOf(recorded, k)
        /\ k > 0 =>
              metrics.AverageResponseTime * k <= SumSeq(LastOf(recorded, k))
              /\ SumSeq(LastOf(recorded, k)) < (metrics.AverageResponseTime + 1) * k

\* a third sample pushed the first one out of a window of two
OldestDropped ==
    /\ Len(recorded) = maxResponseTimes + 1
    /\ recorded[1] = 1
    /\ responseTimes = <<61, 0>>
    /\ metrics.AverageResponseTime = 30

\* the events in worker w's pending list
Pending(w) == IdsOf(batch[w])
\* this step begins a Client.SendBatch call of worker w
BeginsSendBatch(w) ==
    /\ call'[w].kind = "batch"
    /\ call[w].kind # "batch" \/ call'[w].ctx # call[w].ctx

\* C26 (one batch per event): an event taken from the queue is in the
\* pending list or has been passed to a Client call, and an event pending
\* outside a flush has not been passed yet.  Each SendBatch call of a flush
\* carries exactly the pending events of one submission context, none of
\* which was in a call before, and no context gets a second call; when the
\* flush is over every context has had its call and the pending list is
\* empty.  A worker with an empty pending list that takes nothing from the
\* queue begins no call.
OneBatchPerEvent ==
    /\ [](\A e \in 1..nAdded :
             \/ e \in IdsOf(eventChannel)
             \/ e \in handed
             \/ \E w \in procs : e \in Pending(w))
    /\ [](\A w \in procs : ~InCall(w) => Pending(w) \cap handed = {})
    /\ [][\A w \in procs :
            /\ BeginsSendBatch(w) =>
                 LET c == call'[w].ctx
                     b == batch'[w]
                     left == IF InCall(w) THEN todo[w] ELSE CtxsOf(b)
                     sel == SelectSeq(b, LAMBDA x : x.ctx = c)
                 IN  /\ call'[w].events = [k \in 1..Len(sel) |-> sel[k].id]
                     /\ Range(call'[w].events) \cap handed = {}
                     /\ c \in left
                     /\ todo'[w] = left \ {c}
            /\ (InCall(w) /\ ~InCall(w)') =>
                 /\ todo[w] = {}
                 /\ Pending(w) \subseteq handed
                 /\ batch'[w] = <<>>
            /\ (~InCall(w) /\ batch[w] = <<>> /\ eventChannel' = eventChannel) =>
                 (~InCall(w)' /\ call'[w] = NoCall)
       ]_vars

\* the second group of a flush of two events with different contexts is in
\* its SendBatch call
SecondGroupInCall ==
    \E w \in procs :
        /\ pc[w] = "transport" /\ call[w].kind = "batch"
        /\ Cardinality(CtxsOf(batch[w])) = 2
        /\ todo[w] = {}
        /\ Pending(w) \subseteq handed
        /\ Len(call[w].events) = 1

\* this step is a receive of worker w that brings its pending list to
\* BatchSize events
FillsBatch(w) ==
    /\ pc[w] = "select"
    /\ Len(eventChannel') < Len(eventChannel)
    /\ Len(batch[w]) = BatchSize - 1

\* C27 as stated (size trigger): the receive that brings the pending list to
\* BatchSize events begins, in the same step, one SendBatch call that
\* carries exactly these BatchSize events, and the flush makes no other.
SizeFlushIsOneCall ==
    [][\A w \in procs :
          FillsBatch(w) =>
              /\ pc'[w] = "transport" /\ call'[w].kind = "batch"
              /\ Range(call'[w].events) = IdsOf(batch'[w])
              /\ Len(call'[w].events) = BatchSize
              /\ todo'[w] = {}
      ]_vars

\* C27 as amended: a worker never waits in its select with BatchSize
\* pending events: the receive that brings the pending list to BatchSize
\* begins the flush in the same step, with no timer in between, and the
\* flush begins with the SendBatch call of one submission context, the
\* other contexts of these events still to come; when the BatchSize events
\* were all submitted with one context, that call is the only one and
\* carries exactly these events in arrival order.
SizeFlushAtOnce ==
    /\ [](\A w \in procs : pc[w] = "select" => Len(batch[w]) < BatchSize)
    /\ [][\A w \in procs :
            FillsBatch(w) =>
                /\ pc'[w] = "transport" /\ call'[w].kind = "batch"
                /\ Len(batch'[w]) = BatchSize
                /\ {call'[w].ctx} \cup todo'[w] = CtxsOf(batch'[w])
                /\ Cardinality(CtxsOf(batch'[w])) = 1 =>
                      /\ call'[w].events =
                             [k \in 1..BatchSize |-> batch'[w][k].id]
                      /\ todo'[w] = {}
       ]_vars

\* the size trigger sent BatchSize events of one context in one call, while
\* a further event waits in the queue
SizeFlushedOneContext ==
    \E w \in procs :
        /\ pc[w] = "transport" /\ call[w].kind = "batch" /\ call[w].i = 0
        /\ Len(batch[w]) = BatchSize
        /\ Cardinality(CtxsOf(batch[w])) = 1
        /\ Range(call[w].events) = Pending(w)
        /\ eventChannel # <<>>

\* the events of a call are in the order AddEvent accepted them (event e is
\* the e-th accepted)
InArrivalOrder(evs) == \A j, k \in 1..Len(evs) : j < k => evs[j] < evs[k]

\* C28 as stated (FIFO on a single path): with one worker, the events of
\* every Client call are in arrival order, and when an event is passed to
\* the client for the first time every event accepted before it has been
\* passed already or is passed in the same call.
FifoOnePath ==
    /\ [](\A w \in procs : InArrivalOrder(call[w].events))
    /\ [][\A e \in handed' \ handed : \A d \in 1..(e - 1) : d \in handed']_vars

\* C28 as amended: with one worker, the events of every Client call are in
\* arrival order, and when an event is passed to the client for the first
\* time, an event accepted before it has been passed already or is passed in
\* the same call, unless the earlier event is pending in the same flush and
\* was submitted with another context (its group then follows in this flush).
FifoPerContext ==
    /\ [](\A w \in procs : InArrivalOrder(call[w].events))
    /\ [][\A w \in procs : \A e \in Range(call'[w].events) \ handed :
            \A d \in 1..(e - 1) :
                \/ d \in handed'
                \/ \E k \in 1..Len(batch'[w]) :
                      /\ batch'[w][k].id = d
                      /\ batch'[w][k].ctx # call'[w].ctx
                      /\ batch'[w][k].ctx \in todo'[w]
       ]_vars

\* a batch of two events in arrival order is sent after the batch of the
\* event accepted before them
LaterBatchInOrder ==
    \E w \in procs :
        /\ pc[w] = "transport" /\ call[w].kind = "batch"
        /\ call[w].events = <<2, 3>>
        /\ 1 \in handed

\* this step is a flush of worker w on a tick, with events pending
TimeTriggeredFlush(w) ==
    /\ ticker[w].ready /\ ~ticker'[w].ready
    /\ batch[w] # <<>>

\* C29 (timer reset on flush): a flush on a tick comes a full BatchTimeout
\* or more after the worker's previous flush, of whatever kind.
TimerResetOnFlush ==
    [][\A w \in procs :
          TimeTriggeredFlush(w) => ticker[w].sinceFlush >= BatchTimeout]_vars

\* the URL is blank, or an event given to the call is of unknown type or is
\* not valid
PreconditionFails(c) ==
    \/ config.URL \in {"", " "}
    \/ \E k \in 1..Len(Given(c)) :
          \/ event[Given(c)[k]].variant = "Other"
          \/ ~event[Given(c)[k]].valid

\* C30 (no transmission on precondition failure): a Send or SendBatch
\* called with a blank URL, with an event of unknown type or with an event
\* that is not valid ends in its first step, which returns MISSING_URL,
\* UNKNOWN_EVENT_TYPE or EVENT_VALIDATION with no call of sendEvent made;
\* such a call is never in a backoff, so nothing of it is retried.
NoAttemptOnPrecondition ==
    /\ [](pc[Direct] \in {"backoff", "woken"} => ~PreconditionFails(call[Direct]))
    /\ [][(pc[Direct] = "transport" /\ PreconditionFails(call[Direct])
            /\ <<pc[Direct], call[Direct]>>' # <<pc[Direct], call[Direct]>>) =>
              /\ pc'[Direct] = "idle"
              /\ ret'.n = 0
              /\ ret'.res \in {"MISSING_URL", "UNKNOWN_EVENT_TYPE", "EVENT_VALIDATION"}
              /\ config.URL \in {"", " "} => ret'.res = "MISSING_URL"
       ]_vars

\* a SendBatch of a valid and an invalid event returned EVENT_VALIDATION
\* without a request
RefusedBeforeRequest ==
    /\ ret.res = "EVENT_VALIDATION" /\ ret.n = 0
    /\ event[1].valid /\ ~event[2].valid
    /\ event[1].variant = "TraceEvent" /\ event[2].variant = "TraceEvent"
    /\ pc[Direct] = "idle"

\* CheckHealth was not called since the collector was made or reset: only
\* CheckHealth writes the health of the components
NeverChecked == health.QueueHealth = "" /\ health.APIHealth = ""

\* C32 (health before the first check): while CheckHealth has not been
\* called, GetHealthStatus returns the status "unknown".
UnknownBeforeFirstCheck ==
    NeverChecked => GetHealthStatus(health, metrics).Status = "unknown"

\* C33 (min and max response time): once a request was recorded,
\* MinResponseTime is the least and MaxResponseTime the greatest of the
\* response times recorded since the collector was made or reset.
MinMaxOfRecorded ==
    recorded # <<>> =>
        /\ metrics.MinResponseTime \in Range(recorded)
        /\ \A rt \in Range(recorded) : metrics.MinResponseTime <= rt
        /\ metrics.MaxResponseTime \in Range(recorded)
        /\ \A rt \in Range(recorded) : metrics.MaxResponseTime >= rt

\* C34 (AddEvent racing with Stop): an AddEvent that began before Stop was
\* called never sends on the closed queue: the process does not panic with
\* a producer at its send and the queue closed.
NoSendOnClosedQueue == ~(panicked /\ sending # "none" /\ chanClosed)

\* C38 (repeated Stop): once Stop has been called, with no AddEvent under
\* way, the process does not panic, whatever further call of Stop is made:
\* the second call returns and the shutdown goes on as before.
SecondStopReturns == ~(panicked /\ stopChannel = "closed" /\ sending = "none")

\* C35 (classification of the returned error): when Send or SendBatch
\* returns the error of the retry loop, ErrRequestFailed with the last
\* failure as its cause, that error is retryable exactly when the last
\* failure was.
ReturnedErrorClassified ==
    (ret.res = ErrRequestFailed.code /\ ret.cause # NoErr) =>
        (IsRetryable(ErrRequestFailed) <=> IsRetryable(ret.cause))

\* C36 (no fallback after success): a worker begins the individual Sends of
\* a batch only in the step in which SendBatch returned an error for that
\* batch, and while it is in those Sends the error is on record; after a
\* SendBatch that returned nil the worker goes on to the next group or back
\* to its select, and no event of the batch is passed to the client again.
NoFallbackAfterSuccess ==
    /\ [](\A w \in procs : InFallback(w) =>
              (fb[w].cause # "nil" /\ Range(call[w].events) = fb[w].evs))
    /\ [][\A w \in procs :
            (InCall(w) /\ call[w].kind = "batch"
             /\ <<call'[w].kind, call'[w].events>> # <<call[w].kind, call[w].events>>
             /\ fb'[w].cause = "nil") =>
                /\ call'[w].kind # "single"
                /\ call'[w].kind = "batch" =>
                      Range(call'[w].events) \cap Range(call[w].events) = {}
       ]_vars

\* every accepted event went through a SendBatch that returned nil and the worker is back
\* in its select without a fallback
BackInSelectWithoutFallback ==
    \E w \in procs :
        /\ pc[w] = "select" /\ batch[w] = <<>>
        /\ fb[w] = NoFb
        /\ nAdded = BatchSize /\ handed = 1..BatchSize
        /\ eventChannel = <<>>
        /\ ret = NoResult

\* C37 (at least one attempt): under a configuration that Validate accepts,
\* a Send or SendBatch of valid events with a usable URL that returned an
\* error made at least one call of sendEvent, and when the error is that of
\* the retry loop it has the failure of the last attempt as its cause.
AtLeastOneAttempt ==
    (Validate(config) = "nil" /\ ret.res \notin {"none", "nil"}) =>
        /\ ret.n >= 1
        /\ ret.res = ErrRequestFailed.code => ret.cause # NoErr

\* C31 (sendBatch terminates): every Client call of a worker, the SendBatch
\* of a batch or the Send of one event in the fallback, makes at most
\* MaxRetries+1 calls of sendEvent; the fallback sends each event of the
\* batch at most once, the event it is at not having had an individual Send
\* before; and when every round trip and every backoff ends, a worker that
\* is inside a Client call gets back to its select.  (An event is in one
\* SendBatch and in at most one Send, hence in at most 2*(MaxRetries+1)
\* requests.)
SendBatchTerminates ==
    /\ [](\A w \in procs :
             /\ call[w].n <= MaxRetries + 1
             /\ InFallback(w) =>
                   /\ call[w].events[call[w].idx] \notin Settled(w)
                   /\ Range(call[w].events) = fb[w].evs)
    /\ \A w \in Workers : InCall(w) ~> (pc[w] = "select")

\* the batch used up its attempts and the individual Send of an event is at
\* its last attempt
LastAttemptOfFallback ==
    \E w \in procs :
        /\ InFallback(w) /\ pc[w] = "transport"
        /\ call[w].n = MaxRetries + 1
        /\ fb[w].cause = ErrRequestFailed.code
        /\ Len(call[w].events) = BatchSize
        /\ call[w].idx = BatchSize
=============================================================================
